---- MODULE Spec2Model ----
(***************************************************************************)
(* Model of the menu-ingredient extraction pipeline's write path:          *)
(*   pipeline/ingredients.py   canonicalize_ingredient,                     *)
(*                             display_name_for_ingredient                  *)
(*   pipeline/mysql_writer.py  write_run, run_with_transaction              *)
(*                                                                         *)
(* Text is a sequence of one-character strings.  Python None and SQL NULL   *)
(* in a text column are the string PyNone.  A confidence is an integer      *)
(* number of ten-thousandths on input (9500 is 0.95) and an integer number  *)
(* of thousandths once rounded to three decimals (950 is 0.950).            *)
(***************************************************************************)
EXTENDS Integers, Sequences, FiniteSets, TLC

PyNone == "<None>"

(***************************************************************************)
(* Characters                                                              *)
(***************************************************************************)
LowerLetters == {"a", "b"}
UpperLetters == {"A", "B"}
Whitespace == {" ", "\t"}
Punctuation == {".", ",", ";", ":", "!", "?"}
Digits == {"0", "1", "2"}

IsSpace(c) == c \in Whitespace

LowerChar(c) == CASE c = "A" -> "a" [] c = "B" -> "b" [] OTHER -> c

UpperChar(c) == CASE c = "a" -> "A" [] c = "b" -> "B" [] OTHER -> c

IsCased(c) == c \in LowerLetters \cup UpperLetters

(***************************************************************************)
(* str.strip(), str.lower(), re.sub of ingredients.py                      *)
(***************************************************************************)
RECURSIVE LStrip(_)
LStrip(s) == IF s # <<>> /\ IsSpace(Head(s)) THEN LStrip(Tail(s)) ELSE s

RECURSIVE RStrip(_)
RStrip(s) ==
    IF s # <<>> /\ IsSpace(s[Len(s)]) THEN RStrip(SubSeq(s, 1, Len(s) - 1)) ELSE s

Strip(s) == RStrip(LStrip(s))

Lower(s) == [i \in 1..Len(s) |-> LowerChar(s[i])]

\* re.sub(r"\s+", " ", s): every maximal run of whitespace becomes one space
RECURSIVE CollapseWhitespace(_)
CollapseWhitespace(s) ==
    IF s = <<>> THEN <<>>
    ELSE IF IsSpace(Head(s))
         THEN <<" ">> \o CollapseWhitespace(LStrip(s))
         ELSE <<Head(s)>> \o CollapseWhitespace(Tail(s))

\* re.sub(r"[.,;:!?]+$", "", s): the run of punctuation that ends the string
RECURSIVE StripTrailingPunctuation(_)
StripTrailingPunctuation(s) ==
    IF s # <<>> /\ s[Len(s)] \in Punctuation
    THEN StripTrailingPunctuation(SubSeq(s, 1, Len(s) - 1))
    ELSE s

canonicalize_ingredient(name) ==
    IF name = <<>> THEN <<>>
    ELSE Strip(StripTrailingPunctuation(CollapseWhitespace(Lower(Strip(name)))))

\* str.title(): a cased character is upper-cased after an uncased one (or at
\* the start) and lower-cased after a cased one
Title(s) ==
    [i \in 1..Len(s) |->
        IF i = 1 \/ ~IsCased(s[i - 1]) THEN UpperChar(s[i]) ELSE LowerChar(s[i])]

display_name_for_ingredient(name) ==
    IF name = <<>> THEN <<>> ELSE Title(Strip(name))

(***************************************************************************)
(* int(item["item_id"]): surrounding whitespace is ignored, the rest must  *)
(* be decimal digits; ParseError stands for the ValueError / TypeError.     *)
(***************************************************************************)
ParseError == -1

DigitValue(c) == CASE c = "0" -> 0 [] c = "1" -> 1 [] c = "2" -> 2 [] OTHER -> 0

RECURSIVE DigitsValue(_)
DigitsValue(s) ==
    IF s = <<>> THEN 0
    ELSE 10 * DigitsValue(SubSeq(s, 1, Len(s) - 1)) + DigitValue(s[Len(s)])

ParseInt(s) ==
    LET t == Strip(s)
    IN IF t # <<>> /\ \A i \in 1..Len(t) : t[i] \in Digits
       THEN DigitsValue(t)
       ELSE ParseError

(***************************************************************************)
(* conf = max(0.0, min(1.0, conf)); round(conf, 3)                          *)
(***************************************************************************)
One == 10000

Min(a, b) == IF b < a THEN b ELSE a

Max(a, b) == IF b > a THEN b ELSE a

\* (a variant without the lower limit)
ClampAbove(c) == Min(One, c)

Clamp(c) == Max(0, Min(One, c))

\* round(x, 3) of a value in ten-thousandths, result in thousandths; an exact
\* tie goes to the even neighbour
Round3(c) ==
    LET q == c \div 10
        r == c % 10
    IN IF r < 5 THEN q
       ELSE IF r > 5 THEN q + 1
       ELSE IF q % 2 = 0 THEN q ELSE q + 1

(***************************************************************************)
(* Extraction results handed to write_run                                   *)
(***************************************************************************)
Entry(n, c) == [name |-> n, confidence |-> c, confidence_kind |-> "number"]

TextConfidence(n) == [name |-> n, confidence |-> 0, confidence_kind |-> "text"]

Result(item, restaurant, nm, why, ings) ==
    [item_id |-> item, restaurant_id |-> restaurant, item_name |-> nm,
     reasoning |-> why, ingredients |-> ings]

\* The results the batches are made of; a batch names them by their place here.
Results ==
    << Result(<<"1">>, <<"1", "0">>, "Margherita Pizza", "classic",
             <<Entry(<<"a">>, 9500), Entry(<<"b", ".">>, 8000)>>),
      Result(<<"0", "1">>, <<"1", "1">>, PyNone, PyNone,
             <<Entry(<<"!">>, 625), Entry(<<" ", "B">>, 17000)>>),
      Result(<<"2">>, <<"1", "0">>, "Salad", "green",
             <<Entry(<<"A", ".">>, -2000), Entry(<<"b">>, 625)>>),
      Result(<<"2">>, <<"1", "1">>, "Soup", "hot",
             <<Entry(<<" ">>, 9500), TextConfidence(<<PyNone>>)>>),
      Result(<<"2">>, <<"1", "0">>, "Salad", "fresh",
             <<Entry(<<"a">>, 9500), Entry(<<"A", ".">>, 8000)>>),
      Result(<<"x">>, <<"1", "0">>, "Bread", "plain",
             <<Entry(<<"a">>, 9500)>>),
      Result(<<"1">>, <<"y">>, "Bread", "plain",
             <<Entry(<<"b">>, 8000)>>),
      Result(<<"1">>, <<"1", "0">>, "Margherita Pizza", "classic",
             <<TextConfidence(<<"?">>), Entry(<<"a">>, 9500)>>) >>

\* invocations of run_with_transaction in a behaviour
MaxRuns == 2

\* results handed to run_with_transaction, all invocations together
MaxResults == 3

BatchesOf(n) == [1..n -> DOMAIN Results]

(***************************************************************************)
(* State                                                                    *)
(***************************************************************************)
VARIABLES
    db,                  \* the committed contents of the six tables
    txn,                 \* the contents seen inside the open transaction
    next_run_id,         \* AUTO_INCREMENT of extraction_runs
    next_ingredient_id,  \* AUTO_INCREMENT of ingredients
    pc,                  \* position of run_with_transaction / write_run
    results,             \* the batch of the invocation, as places in Results
    i,                   \* index of the result in work (for item in results)
    k,                   \* index of the entry in work (for ing in ingredient_rows)
    run_id,              \* cursor.lastrowid of the extraction_runs insert
    item_id,             \* int(item["item_id"]) of the result in work
    seen_ingredient_ids, \* the accumulator of the result in work
    conn,                \* "none", "open" or "closed"
    closes,              \* calls of conn.close() in the invocation
    rollbacks,           \* calls of conn.rollback() in the invocation
    error,               \* the exception in flight, "" when none
    outcome,             \* how the invocation ended
    calls,               \* invocations so far; the clock of updated_at
    handed,              \* results handed over so far
    previous,            \* history: batch and outcome of the invocation before
    last_write,          \* history: per item, the committed run that last wrote it
    text,                \* a raw name, a variant of it, and their canonical keys
    prompt_version,      \* keyword argument of the invocation, PyNone when not given
    pipeline_version,    \* keyword argument of the invocation, PyNone when not given
    config_py,           \* the module config.py the process can import, if any
    main                 \* the frame of the driver main() of pipeline.py

vars ==
    <<db, txn, next_run_id, next_ingredient_id, pc, results, i, k, run_id,
      item_id, seen_ingredient_ids, conn, closes, rollbacks, error, outcome,
      calls, handed, previous, last_write, text, prompt_version,
      pipeline_version, config_py, main>>

EmptyStore ==
    [extraction_runs |-> {},
     restaurants |-> {[restaurant_id |-> 11, name |-> "Luigi", updated_at |-> 0]},
     menu_items |-> {},
     ingredients |-> {},
     menu_item_ingredient_observations |-> {},
     menu_item_ingredients |-> {}]

NoText == [raw |-> <<>>, variant |-> <<>>, keys |-> <<>>]

\* no config.py on the import path: _get_pipeline_config returns (None, None)
NoConfig == [present |-> FALSE, PROMPT_VERSION |-> PyNone,
             PIPELINE_VERSION |-> PyNone]

\* the store and the connection before the first invocation
Start ==
    /\ db = EmptyStore
    /\ txn = EmptyStore
    /\ next_run_id = 1
    /\ next_ingredient_id = 1
    /\ pc = "idle"
    /\ results = <<>>
    /\ i = 0
    /\ k = 0
    /\ run_id = 0
    /\ item_id = 0
    /\ seen_ingredient_ids = <<>>
    /\ conn = "none"
    /\ closes = 0
    /\ rollbacks = 0
    /\ error = ""
    /\ outcome = "none"
    /\ calls = 0
    /\ handed = 0
    /\ previous = [results |-> <<>>, outcome |-> "none", error |-> "",
                   run_id |-> 0]
    /\ last_write = {}
    /\ prompt_version = PyNone
    /\ pipeline_version = PyNone

\* main() has not been called
NotRunning ==
    [stage |-> "none", invocations |-> 0, chunk_size |-> 0, batch |-> 0,
     start |-> 0, results |-> <<>>, calls_before |-> 0, loads |-> 0,
     extractions |-> 0, failed |-> "", status |-> -1]

Init ==
    /\ text = NoText
    /\ config_py = NoConfig
    /\ main = NotRunning
    /\ Start

(***************************************************************************)
(* The statements write_run executes, as functions of the table contents    *)
(***************************************************************************)
ModelName == "gpt-4o"

\* INSERT INTO extraction_runs (model_name, prompt_version, pipeline_version)
InsertExtractionRun(rows, id, prompt, pipeline) ==
    rows \cup {[run_id |-> id, model_name |-> ModelName,
                prompt_version |-> prompt,
                pipeline_version |-> pipeline]}

\* (a variant that only updates, as UPDATE restaurants SET updated_at would)
TouchRestaurant(rows, restaurant_id, now) ==
    { IF r.restaurant_id = restaurant_id
      THEN [r EXCEPT !.updated_at = now]
      ELSE r : r \in rows }

\* (a variant that replaces the row it finds, as REPLACE INTO would)
ReplaceRestaurant(rows, restaurant_id, now) ==
    { r \in rows : r.restaurant_id # restaurant_id }
        \cup {[restaurant_id |-> restaurant_id, name |-> PyNone,
                updated_at |-> now]}

\* INSERT INTO restaurants ... VALUES (%s, NULL)
\* ON DUPLICATE KEY UPDATE updated_at = CURRENT_TIMESTAMP
UpsertRestaurant(rows, restaurant_id, now) ==
    IF \E r \in rows : r.restaurant_id = restaurant_id
    THEN { IF r.restaurant_id = restaurant_id
           THEN [r EXCEPT !.updated_at = now]
           ELSE r : r \in rows }
    ELSE rows \cup {[restaurant_id |-> restaurant_id, name |-> PyNone,
                     updated_at |-> now]}

\* (a variant that keeps the row it finds, as INSERT IGNORE would)
InsertIgnoreMenuItem(rows, item, restaurant_id, item_name, reasoning, now) ==
    IF \E r \in rows : r.item_id = item
    THEN rows
    ELSE rows \cup {[item_id |-> item, restaurant_id |-> restaurant_id,
                     item_name |-> item_name, reasoning |-> reasoning,
                     updated_at |-> now]}

\* INSERT INTO menu_items ... ON DUPLICATE KEY UPDATE restaurant_id, item_name,
\* reasoning, updated_at
UpsertMenuItem(rows, item, restaurant_id, item_name, reasoning, now) ==
    LET row == [item_id |-> item, restaurant_id |-> restaurant_id,
                item_name |-> item_name, reasoning |-> reasoning,
                updated_at |-> now]
    IN IF \E r \in rows : r.item_id = item
       THEN { IF r.item_id = item THEN row ELSE r : r \in rows }
       ELSE rows \cup {row}

\* (a variant without the ON DUPLICATE KEY clause and without the unique key)
InsertIngredient(rows, canonical, display, id) ==
    rows \cup {[ingredient_id |-> id, canonical_name |-> canonical,
                display_name |-> display]}

\* INSERT INTO ingredients (canonical_name, display_name)
\* ON DUPLICATE KEY UPDATE display_name = VALUES(display_name)
UpsertIngredient(rows, canonical, display, id) ==
    IF \E r \in rows : r.canonical_name = canonical
    THEN { IF r.canonical_name = canonical
           THEN [r EXCEPT !.display_name = display]
           ELSE r : r \in rows }
    ELSE rows \cup {[ingredient_id |-> id, canonical_name |-> canonical,
                     display_name |-> display]}

\* SELECT ingredient_id FROM ingredients WHERE canonical_name = %s; fetchone()
SelectIngredientId(rows, canonical) ==
    (CHOOSE r \in rows : r.canonical_name = canonical).ingredient_id

\* (a variant whose key leaves out run_id)
UpsertObservationOfAnyRun(rows, run, item, ingredient_id, confidence) ==
    { r \in rows : ~(r.item_id = item /\ r.ingredient_id = ingredient_id) }
        \cup {[run_id |-> run, item_id |-> item,
                ingredient_id |-> ingredient_id, confidence |-> confidence]}

\* INSERT INTO menu_item_ingredient_observations ...
\* ON DUPLICATE KEY UPDATE confidence = VALUES(confidence), created_at
UpsertObservation(rows, run, item, ingredient_id, confidence) ==
    LET row == [run_id |-> run, item_id |-> item,
                ingredient_id |-> ingredient_id, confidence |-> confidence]
        SameKey(r) == /\ r.run_id = run
                      /\ r.item_id = item
                      /\ r.ingredient_id = ingredient_id
    IN { r \in rows : ~SameKey(r) } \cup {row}

\* (a variant without the WHERE clause)
DeleteAllLinks(rows, item) == {}

\* DELETE FROM menu_item_ingredients WHERE item_id = %s
DeleteLinks(rows, item) == { r \in rows : r.item_id # item }

\* The key of menu_item_ingredients is (item_id, ingredient_id): a plain INSERT
\* of a pair the table holds is refused by the store.
LinkKeyTaken(rows, item, ingredient_id) ==
    \E r \in rows : r.item_id = item /\ r.ingredient_id = ingredient_id

\* for ing_id, conf in seen_ingredient_ids: INSERT INTO menu_item_ingredients;
\* ok is FALSE when an insert was refused
RECURSIVE InsertLinks(_, _, _)
InsertLinks(rows, item, seen) ==
    IF seen = <<>> THEN [ok |-> TRUE, rows |-> rows]
    ELSE IF LinkKeyTaken(rows, item, Head(seen).ingredient_id)
         THEN [ok |-> FALSE, rows |-> rows]
         ELSE InsertLinks(
                  rows \cup {[item_id |-> item,
                              ingredient_id |-> Head(seen).ingredient_id,
                              confidence |-> Round3(Head(seen).conf)]},
                  item, Tail(seen))

(***************************************************************************)
(* What write_run reads from a result                                       *)
(***************************************************************************)
\* item.get("item_name") or ""
ItemName(item) == IF item.item_name = PyNone THEN "" ELSE item.item_name

\* (ing.get("name") or "").strip()
EntryName(ing) == IF ing.name = <<PyNone>> THEN <<>> ELSE Strip(ing.name)

\* float(ing.get("confidence", 0)) raises on text
FloatFails(ing) == ing.confidence_kind = "text"

FloatOf(ing) == IF ing.confidence_kind = "missing" THEN 0 ELSE ing.confidence

\* the entry passes both "continue" statements of the ingredient loop
Persistable(ing) ==
    /\ EntryName(ing) # <<>>
    /\ canonicalize_ingredient(EntryName(ing)) # <<>>

(***************************************************************************)
(* run_with_transaction and write_run, statement by statement               *)
(***************************************************************************)
\* the frame of write_run, gone once write_run returns or raises
frame == <<i, k, item_id, seen_ingredient_ids>>

counters == <<next_run_id, next_ingredient_id>>

history == <<calls, handed, previous, last_write>>

\* what write_run and run_with_transaction neither read for writing nor change
ambient == <<text, config_py, main>>

\* the keyword arguments of the invocation
params == <<prompt_version, pipeline_version>>

LeaveWriteRun ==
    /\ i' = 0
    /\ k' = 0
    /\ item_id' = 0
    /\ seen_ingredient_ids' = <<>>

\* raise inside write_run: the exception reaches the except clause of
\* run_with_transaction
Raise(exception) ==
    /\ error' = exception
    /\ pc' = "rollback"
    /\ LeaveWriteRun

\* conn = mysql.connector.connect(**cfg); autocommit is off, so the statements
\* that follow form one transaction
Connect(batch, prompt, pipeline) ==
    /\ pc = "idle"
    /\ calls < MaxRuns
    /\ prompt_version' = prompt
    /\ pipeline_version' = pipeline
    /\ calls' = calls + 1
    /\ handed' = handed + Len(batch)
    /\ previous' = [results |-> results, outcome |-> outcome, error |-> error,
                    run_id |-> run_id]
    /\ results' = batch
    /\ conn' = "open"
    /\ txn' = db
    /\ pc' = "insert_run"
    /\ run_id' = 0
    /\ closes' = 0
    /\ rollbacks' = 0
    /\ error' = ""
    /\ outcome' = "running"
    /\ UNCHANGED ambient
    /\ UNCHANGED <<db, counters, frame, last_write>>

\* import config; getattr(_cfg, "PROMPT_VERSION", None), getattr(_cfg,
\* "PIPELINE_VERSION", None); (None, None) on ImportError
get_pipeline_config ==
    IF config_py.present
    THEN <<config_py.PROMPT_VERSION, config_py.PIPELINE_VERSION>>
    ELSE <<PyNone, PyNone>>

\* if prompt_version is None: prompt_version = _pv
PromptVersionUsed ==
    IF prompt_version = PyNone THEN get_pipeline_config[1] ELSE prompt_version

\* if pipeline_version is None: pipeline_version = _pipv
PipelineVersionUsed ==
    IF pipeline_version = PyNone
    THEN get_pipeline_config[2]
    ELSE pipeline_version

\* (a variant whose AUTO_INCREMENT value is given back by a rollback)
InsertRunReusingId ==
    /\ pc = "insert_run"
    /\ run_id' = 1 + Cardinality(txn.extraction_runs)
    /\ next_run_id' = 2 + Cardinality(txn.extraction_runs)
    /\ txn' = [txn EXCEPT
          !.extraction_runs =
              InsertExtractionRun(txn.extraction_runs,
                                  1 + Cardinality(txn.extraction_runs),
                                  PromptVersionUsed, PipelineVersionUsed)]
    /\ i' = 1
    /\ pc' = "item"
    /\ UNCHANGED <<ambient, params>>
    /\ UNCHANGED <<db, next_ingredient_id, results, k, item_id,
                   seen_ingredient_ids, conn, closes, rollbacks, error, outcome,
                   history>>

\* 1) INSERT INTO extraction_runs; run_id = cursor.lastrowid
InsertRun ==
    /\ pc = "insert_run"
    /\ run_id' = next_run_id
    /\ next_run_id' = next_run_id + 1
    /\ txn' = [txn EXCEPT
          !.extraction_runs =
              InsertExtractionRun(txn.extraction_runs, next_run_id,
                                  PromptVersionUsed, PipelineVersionUsed)]
    /\ i' = 1
    /\ pc' = "item"
    /\ UNCHANGED <<ambient, params>>
    /\ UNCHANGED <<db, next_ingredient_id, results, k, item_id,
                   seen_ingredient_ids, conn, closes, rollbacks, error, outcome,
                   history>>

\* ingredient_rows = item.get("ingredients") or []
ingredient_rows == Results[results[i]].ingredients

\* for item in results: the two int() conversions, then 2) and 3)
BeginItem ==
    /\ pc = "item"
    /\ i <= Len(results)
    /\ LET item == Results[results[i]]
           id == ParseInt(item.item_id)
           restaurant_id == ParseInt(item.restaurant_id)
       IN IF id = ParseError \/ restaurant_id = ParseError
          THEN /\ Raise("ValueError")
               /\ UNCHANGED txn
          ELSE /\ item_id' = id
               /\ txn' = [txn EXCEPT
                     !.restaurants =
                         UpsertRestaurant(txn.restaurants, restaurant_id, calls),
                     !.menu_items =
                         UpsertMenuItem(txn.menu_items, id, restaurant_id,
                                        ItemName(item), item.reasoning, calls)]
               /\ k' = 1
               /\ seen_ingredient_ids' = <<>>
               /\ pc' = "ingredient"
               /\ UNCHANGED <<error, i>>
    /\ UNCHANGED <<ambient, params>>
    /\ UNCHANGED <<db, counters, results, run_id, conn, closes, rollbacks,
                   outcome, history>>

\* for ing in ingredient_rows: one entry, 4) and 5)
Ingredient ==
    /\ pc = "ingredient"
    /\ k <= Len(ingredient_rows)
    /\ LET ing == ingredient_rows[k]
           name == EntryName(ing)
           conf == Clamp(FloatOf(ing))
           canonical == canonicalize_ingredient(name)
           display == display_name_for_ingredient(name)
           ingredients == UpsertIngredient(txn.ingredients, canonical, display,
                                           next_ingredient_id)
           ingredient_id == SelectIngredientId(ingredients, canonical)
           Skip == /\ k' = k + 1
                   /\ UNCHANGED <<txn, next_ingredient_id, i, item_id,
                                  seen_ingredient_ids, error, pc>>
       IN IF name = <<>> THEN Skip
          ELSE IF FloatFails(ing)
          THEN /\ Raise("ValueError")
               /\ UNCHANGED <<txn, next_ingredient_id>>
          ELSE IF canonical = <<>> THEN Skip
          ELSE /\ txn' = [txn EXCEPT
                     !.ingredients = ingredients,
                     !.menu_item_ingredient_observations =
                         UpsertObservation(
                             txn.menu_item_ingredient_observations, run_id,
                             item_id, ingredient_id, Round3(conf))]
               /\ next_ingredient_id' =
                      IF Cardinality(ingredients) = Cardinality(txn.ingredients)
                      THEN next_ingredient_id
                      ELSE next_ingredient_id + 1
               /\ seen_ingredient_ids' =
                      Append(seen_ingredient_ids,
                             [ingredient_id |-> ingredient_id, conf |-> conf])
               /\ k' = k + 1
               /\ UNCHANGED <<i, item_id, error, pc>>
    /\ UNCHANGED <<ambient, params>>
    /\ UNCHANGED <<db, next_run_id, results, run_id, conn, closes, rollbacks,
                   outcome, history>>

\* 6) DELETE FROM menu_item_ingredients, then one INSERT per accumulated pair
SyncSnapshot ==
    /\ pc = "ingredient"
    /\ k > Len(ingredient_rows)
    /\ LET done == InsertLinks(DeleteLinks(txn.menu_item_ingredients, item_id),
                               item_id, seen_ingredient_ids)
       IN IF done.ok
          THEN /\ txn' = [txn EXCEPT !.menu_item_ingredients = done.rows]
               /\ i' = i + 1
               /\ pc' = "item"
               /\ UNCHANGED <<k, item_id, seen_ingredient_ids, error>>
          ELSE /\ Raise("IntegrityError")
               /\ UNCHANGED txn
    /\ UNCHANGED <<ambient, params>>
    /\ UNCHANGED <<db, counters, results, run_id, conn, closes, rollbacks,
                   outcome, history>>

\* return run_id (finally: cursor.close())
ReturnRunId ==
    /\ pc = "item"
    /\ i > Len(results)
    /\ pc' = "commit"
    /\ LeaveWriteRun
    /\ UNCHANGED <<ambient, params>>
    /\ UNCHANGED <<db, txn, counters, results, run_id, conn, closes, rollbacks,
                   error, outcome, history>>

\* a statement of write_run is refused by the store (connection loss, ...);
\* an entry that is skipped executes no statement
StoreFailure ==
    /\ \/ pc = "insert_run"
       \/ /\ pc = "item"
          /\ i <= Len(results)
          /\ ParseInt(Results[results[i]].item_id) # ParseError
          /\ ParseInt(Results[results[i]].restaurant_id) # ParseError
       \/ /\ pc = "ingredient"
          /\ IF k > Len(ingredient_rows)
             THEN TRUE
             ELSE /\ Persistable(ingredient_rows[k])
                  /\ ~FloatFails(ingredient_rows[k])
    /\ Raise("StoreError")
    /\ UNCHANGED <<ambient, params>>
    /\ UNCHANGED <<db, txn, counters, results, run_id, conn, closes, rollbacks,
                   outcome, history>>

\* row = cursor.fetchone(); if not row: raise RuntimeError
ResolveFails ==
    /\ pc = "ingredient"
    /\ k <= Len(ingredient_rows)
    /\ Persistable(ingredient_rows[k])
    /\ ~FloatFails(ingredient_rows[k])
    /\ Raise("RuntimeError")
    /\ UNCHANGED <<ambient, params>>
    /\ UNCHANGED <<db, txn, counters, results, run_id, conn, closes, rollbacks,
                   outcome, history>>

\* the run that last wrote each item, once the batch is committed
ItemId(batch, n) == ParseInt(Results[batch[n]].item_id)

ItemsOf(batch) == { ItemId(batch, n) : n \in 1..Len(batch) }

LastIndex(batch, id) ==
    CHOOSE n \in 1..Len(batch) :
        /\ ItemId(batch, n) = id
        /\ \A m \in (n + 1)..Len(batch) : ItemId(batch, m) # id

Recorded(written, batch, run) ==
    { w \in written : w.item_id \notin ItemsOf(batch) }
        \cup { [item_id |-> id, run_id |-> run,
                result |-> batch[LastIndex(batch, id)]] : id \in ItemsOf(batch) }

\* conn.commit(); return run_id
Commit ==
    /\ pc = "commit"
    /\ db' = txn
    /\ last_write' = Recorded(last_write, results, run_id)
    /\ outcome' = "returning"
    /\ pc' = "close"
    /\ UNCHANGED <<ambient, params>>
    /\ UNCHANGED <<txn, counters, results, frame, run_id, conn, closes,
                   rollbacks, error, calls, handed, previous>>

\* conn.commit() raises
CommitFails ==
    /\ pc = "commit"
    /\ error' = "StoreError"
    /\ pc' = "rollback"
    /\ UNCHANGED <<ambient, params>>
    /\ UNCHANGED <<db, txn, counters, results, frame, run_id, conn, closes,
                   rollbacks, outcome, history>>

\* (a variant for a connection that commits each statement by itself)
KeepsWrites(committed, written) == written

\* what conn.rollback() leaves of the transaction's writes
RolledBack(committed, written) == committed

\* except Exception: conn.rollback(); raise
Rollback ==
    /\ pc = "rollback"
    /\ rollbacks' = rollbacks + 1
    /\ txn' = RolledBack(db, txn)
    /\ db' = RolledBack(db, txn)
    /\ outcome' = "raising"
    /\ pc' = "close"
    /\ UNCHANGED <<ambient, params>>
    /\ UNCHANGED <<counters, results, frame, run_id, conn, closes, error,
                   history>>

\* conn.rollback() itself raises on a lost connection: that exception replaces
\* the one in flight; the server drops the transaction of a lost connection
RollbackFails ==
    /\ pc = "rollback"
    /\ error = "StoreError"
    /\ rollbacks' = rollbacks + 1
    /\ txn' = RolledBack(db, txn)
    /\ db' = RolledBack(db, txn)
    /\ error' = "RollbackError"
    /\ outcome' = "raising"
    /\ pc' = "close"
    /\ UNCHANGED <<ambient, params>>
    /\ UNCHANGED <<counters, results, frame, run_id, conn, closes, history>>

\* (a variant that closes after the commit only, not in a finally clause)
CloseAfterCommitOnly ==
    /\ pc = "close"
    /\ conn' = IF outcome = "returning" THEN "closed" ELSE conn
    /\ closes' = IF outcome = "returning" THEN closes + 1 ELSE closes
    /\ outcome' = IF outcome = "returning" THEN "returned" ELSE "raised"
    /\ pc' = "idle"
    /\ UNCHANGED <<ambient, params>>
    /\ UNCHANGED <<db, txn, counters, results, frame, run_id, rollbacks, error,
                   history>>

\* finally: conn.close(); control returns to the caller
Close ==
    /\ pc = "close"
    /\ conn' = "closed"
    /\ closes' = closes + 1
    /\ outcome' = IF outcome = "returning" THEN "returned" ELSE "raised"
    /\ pc' = "idle"
    /\ UNCHANGED <<ambient, params>>
    /\ UNCHANGED <<db, txn, counters, results, frame, run_id, rollbacks, error,
                   history>>

Next ==
    \/ \E n \in 0..(MaxResults - handed) :
           \E batch \in BatchesOf(n) : Connect(batch, PyNone, PyNone)
    \/ InsertRun
    \/ BeginItem
    \/ Ingredient
    \/ SyncSnapshot
    \/ ReturnRunId
    \/ StoreFailure
    \/ ResolveFails
    \/ Commit
    \/ CommitFails
    \/ Rollback
    \/ RollbackFails
    \/ Close

Spec == Init /\ [][Next]_vars

(***************************************************************************)
(* Invocations with and without version arguments, with and without a       *)
(* config.py                                                                *)
(***************************************************************************)
Versions == {PyNone, "v2"}

Configs ==
    {NoConfig,
     [present |-> TRUE, PROMPT_VERSION |-> "v1", PIPELINE_VERSION |-> PyNone],
     [present |-> TRUE, PROMPT_VERSION |-> "v1", PIPELINE_VERSION |-> "p1"]}

VersionBatches == {<<>>, <<1>>}

InitVersions ==
    /\ text = NoText
    /\ config_py \in Configs
    /\ main = NotRunning
    /\ Start

NextVersions ==
    \/ \E batch \in VersionBatches :
           \E prompt \in Versions, pipeline \in Versions :
               Connect(batch, prompt, pipeline)
    \/ InsertRun
    \/ BeginItem
    \/ Ingredient
    \/ SyncSnapshot
    \/ ReturnRunId
    \/ StoreFailure
    \/ ResolveFails
    \/ Commit
    \/ CommitFails
    \/ Rollback
    \/ RollbackFails
    \/ Close

SpecVersions == InitVersions /\ [][NextVersions]_vars

(***************************************************************************)
(* The driver main() of pipeline.py: load, extract chunk by chunk, write    *)
(***************************************************************************)
\* menu items load_menu_batch returns at most (--limit)
MaxItems == 2

\* values of --chunk-size
ChunkSizes == 0..2

\* the results extract_ingredients returns are among these places of Results
Extractable == {1, 3, 6}

\* what main neither reads for writing nor changes
writer ==
    <<db, txn, counters, pc, results, frame, run_id, conn, closes, rollbacks,
      error, outcome, history, params, text, config_py>>

\* return <status> from main
Return(status, failed) ==
    main' = [main EXCEPT !.stage = "done", !.status = status,
                         !.failed = failed]

\* args = parser.parse_args(); if not os.path.isfile(sqlite_path): return 1
MainStart(chunk_size, isfile) ==
    /\ main.stage \in {"none", "done"}
    /\ main.invocations < MaxRuns
    /\ pc = "idle"
    /\ main' = [stage |-> IF isfile THEN "load" ELSE "done",
                invocations |-> main.invocations + 1,
                chunk_size |-> Max(1, chunk_size),
                batch |-> 0, start |-> 0, results |-> <<>>,
                calls_before |-> calls, loads |-> 0, extractions |-> 0,
                failed |-> IF isfile THEN "" ELSE "nofile",
                status |-> IF isfile THEN -1 ELSE 1]
    /\ UNCHANGED writer

\* batch = load_menu_batch(sqlite_path, args.limit); if not batch: return 0
Load(n) ==
    /\ main.stage = "load"
    /\ main' = [main EXCEPT !.loads = @ + 1,
                            !.batch = n,
                            !.stage = IF n = 0 THEN "done" ELSE "extract",
                            !.status = IF n = 0 THEN 0 ELSE -1]
    /\ UNCHANGED writer

\* load_menu_batch raises; except Exception: return 1
LoadFails ==
    /\ main.stage = "load"
    /\ main' = [main EXCEPT !.loads = @ + 1, !.stage = "done",
                            !.status = 1, !.failed = "load"]
    /\ UNCHANGED writer

\* len(batch[start : start + chunk_size])
ChunkLen == Min(main.chunk_size, main.batch - main.start)

\* for start in range(0, len(batch), chunk_size):
\*     chunk_results = extract_ingredients(menu_text, model=args.model)
\*     results.extend(chunk_results)
Extract(chunk_results) ==
    /\ main.stage = "extract"
    /\ main.start < main.batch
    /\ main' = [main EXCEPT
                    !.extractions = @ + 1,
                    !.results = @ \o chunk_results,
                    !.start = @ + main.chunk_size,
                    !.stage = IF main.start + main.chunk_size < main.batch
                              THEN "extract" ELSE "write"]
    /\ UNCHANGED writer

\* (a variant that logs the exception and writes the results gathered so far)
ExtractFailsThenWrites ==
    /\ main.stage = "extract"
    /\ main.start < main.batch
    /\ main' = [main EXCEPT !.extractions = @ + 1, !.stage = "write",
                            !.failed = "extract"]
    /\ UNCHANGED writer

\* extract_ingredients raises; except Exception: return 1
ExtractFails ==
    /\ main.stage = "extract"
    /\ main.start < main.batch
    /\ main' = [main EXCEPT !.extractions = @ + 1, !.stage = "done",
                            !.status = 1, !.failed = "extract"]
    /\ UNCHANGED writer

\* run_id = run_with_transaction(results, ..., prompt_version=args.prompt_version,
\* pipeline_version=args.pipeline_version): the call
MainWrite ==
    /\ main.stage = "write"
    /\ calls = main.calls_before
    /\ Connect(main.results, PyNone, PyNone)

\* mysql.connector.connect raises: run_with_transaction raises before it has a
\* connection; except Exception: return 1
ConnectFails ==
    /\ main.stage = "write"
    /\ calls = main.calls_before
    /\ pc = "idle"
    /\ Return(1, "write")
    /\ UNCHANGED writer

\* (a variant that reports success whatever run_with_transaction did)
MainReturnsZero ==
    /\ main.stage = "write"
    /\ calls > main.calls_before
    /\ pc = "idle"
    /\ Return(0, IF outcome = "returned" THEN "" ELSE "write")
    /\ UNCHANGED writer

\* run_with_transaction has returned: return 0; it has raised: except
\* Exception: return 1
MainReturn ==
    /\ main.stage = "write"
    /\ calls > main.calls_before
    /\ pc = "idle"
    /\ IF outcome = "returned" THEN Return(0, "") ELSE Return(1, "write")
    /\ UNCHANGED writer

NextMain ==
    \/ \E chunk_size \in ChunkSizes, isfile \in BOOLEAN :
           MainStart(chunk_size, isfile)
    \/ \E n \in 0..MaxItems : Load(n)
    \/ LoadFails
    \/ \E chunk_results \in [1..ChunkLen -> Extractable] : Extract(chunk_results)
    \/ ExtractFails
    \/ MainWrite
    \/ ConnectFails
    \/ MainReturn
    \/ InsertRun
    \/ BeginItem
    \/ Ingredient
    \/ SyncSnapshot
    \/ ReturnRunId
    \/ StoreFailure
    \/ ResolveFails
    \/ Commit
    \/ CommitFails
    \/ Rollback
    \/ RollbackFails
    \/ Close

SpecMain == Init /\ [][NextMain]_vars

(***************************************************************************)
(* canonicalize_ingredient applied to a raw name and to a variant of it     *)
(***************************************************************************)
\* the longest raw name
MaxLen == 3

Alphabet == {"a", "A", "b", " ", "\t", ".", "!"}

RawNames == UNION { [1..n -> Alphabet] : n \in 0..MaxLen }

SwapCase(c) == IF c \in LowerLetters THEN UpperChar(c) ELSE LowerChar(c)

InsertAt(s, p, c) == SubSeq(s, 1, p - 1) \o <<c>> \o SubSeq(s, p, Len(s))

\* The strings that differ from s in one place only: the case of one letter, one
\* more whitespace character in front, behind or next to a whitespace
\* character, or one more punctuation character at the end.
Variants(s) ==
    { [s EXCEPT ![p] = SwapCase(s[p])] : p \in { q \in 1..Len(s) : IsCased(s[q]) } }
        \cup { <<c>> \o s : c \in Alphabet \cap Whitespace }
        \cup { s \o <<c>> : c \in Alphabet \cap Whitespace }
        \cup { InsertAt(s, p, c) :
                 p \in { q \in 1..Len(s) : IsSpace(s[q]) },
                 c \in Alphabet \cap Whitespace }
        \cup { s \o <<c>> : c \in Alphabet \cap Punctuation }

InitCanon ==
    /\ \E s \in RawNames : \E t \in Variants(s) \cup {s} :
           text = [raw |-> s, variant |-> t, keys |-> <<>>]
    /\ config_py = NoConfig
    /\ main = NotRunning
    /\ Start

\* canonical = canonicalize_ingredient(name), for the name, for its variant and
\* for the key of the name
Canonicalize ==
    /\ text.keys = <<>>
    /\ text' = [text EXCEPT !.keys =
                   <<canonicalize_ingredient(text.raw),
                     canonicalize_ingredient(text.variant),
                     canonicalize_ingredient(canonicalize_ingredient(text.raw))>>]
    /\ UNCHANGED <<db, txn, counters, pc, results, frame, run_id, conn, closes,
                   rollbacks, error, outcome, history, params, config_py, main>>

NextCanon == Canonicalize

SpecCanon == InitCanon /\ [][NextCanon]_vars

(***************************************************************************)
(* Properties                                                               *)
(***************************************************************************)
RowsOfRun(store, run) ==
    { r \in store.extraction_runs : r.run_id = run }
        \cup { o \in store.menu_item_ingredient_observations : o.run_id = run }

\* C1: while an exception of write_run or of commit is in flight, up to the
\* return to the caller, no step changes the committed contents of any of the
\* six tables, and they hold no row of the failed run.
C1_FailedRunLeavesStoreUnchanged ==
    [][error' # "" => (db' = db /\ (run_id' # 0 => RowsOfRun(db', run_id') = {}))]_vars

\* A batch failed on a later result, after write_run had inserted the run row
\* and ingredient rows for an earlier one, and the invocation has ended.
C1_Witness ==
    /\ pc = "idle"
    /\ outcome = "raised"
    /\ error = "ValueError"
    /\ rollbacks = 1
    /\ next_run_id > 1 + Cardinality(db.extraction_runs)
    /\ next_ingredient_id > 1 + Cardinality(db.ingredients)

LinkedIngredients(store, item) ==
    { l.ingredient_id : l \in { m \in store.menu_item_ingredients : m.item_id = item } }

ObservedIngredients(store, run, item) ==
    { o.ingredient_id :
        o \in { m \in store.menu_item_ingredient_observations :
                  m.run_id = run /\ m.item_id = item } }

\* C2: for every item, the ingredients linked to it in menu_item_ingredients
\* are those the latest committed run that processed the item recorded for it
\* in menu_item_ingredient_observations.
C2_SnapshotEqualsLatestRun ==
    \A w \in last_write :
        LinkedIngredients(db, w.item_id)
            = ObservedIngredients(db, w.run_id, w.item_id)

\* the batch does not abort by its own content and no store failure struck
Accepted(batch) ==
    \A n \in 1..Len(batch) :
        /\ ParseInt(Results[batch[n]].item_id) # ParseError
        /\ ParseInt(Results[batch[n]].restaurant_id) # ParseError
        /\ \A m \in 1..Len(Results[batch[n]].ingredients) :
               \/ EntryName(Results[batch[n]].ingredients[m]) = <<>>
               \/ ~FloatFails(Results[batch[n]].ingredients[m])

StoreErrors == {"StoreError", "RuntimeError", "RollbackError"}

OneRowPerPair(rows) ==
    \A r1, r2 \in rows :
        (r1.item_id = r2.item_id /\ r1.ingredient_id = r2.ingredient_id) => r1 = r2

\* C3: when run_with_transaction has run twice in a row with the same batch
\* (numeric ids and confidences, no store failure), both runs are committed,
\* under two different run_ids, and the commit of the second leaves
\* menu_item_ingredients as the first left it, one row per pair.
C3_ReplayIsIdempotent ==
    /\ []((/\ pc = "idle"
           /\ calls = 2
           /\ previous.results = results
           /\ Accepted(results)
           /\ error \notin StoreErrors
           /\ previous.error \notin StoreErrors)
              => (outcome = "returned" /\ previous.outcome = "returned"))
    /\ [][(/\ pc = "commit"
           /\ pc' = "close"
           /\ previous.results = results
           /\ previous.outcome = "returned")
              => (/\ db'.menu_item_ingredients = db.menu_item_ingredients
                  /\ OneRowPerPair(db'.menu_item_ingredients)
                  /\ \A r \in db.extraction_runs : r.run_id # run_id
                  /\ \E r \in db'.extraction_runs : r.run_id = run_id)]_vars

\* C4: no step removes or changes a committed extraction_runs row or a
\* committed observation row, and inside a transaction the statements of
\* write_run leave every observation row of another run as it is.
C4_HistoryAppendOnly ==
    [][/\ db.extraction_runs \subseteq db'.extraction_runs
       /\ db.menu_item_ingredient_observations
              \subseteq db'.menu_item_ingredient_observations
       /\ pc \in {"insert_run", "item", "ingredient"}
              => \A o \in txn.menu_item_ingredient_observations :
                     o.run_id # run_id'
                         => o \in txn'.menu_item_ingredient_observations]_vars

\* Two committed runs have observed the same ingredient for the same item.
C4_Witness ==
    \E o1, o2 \in db.menu_item_ingredient_observations :
        /\ o1.run_id # o2.run_id
        /\ o1.item_id = o2.item_id
        /\ o1.ingredient_id = o2.ingredient_id

\* C5: the connection stays open until the end of the invocation; when control
\* is back with the caller it was closed exactly once, and either the run_id
\* is returned, write_run raised nothing and the run is committed, or an
\* exception is propagated and rollback was called.
C5_CommitOrRollbackThenClose ==
    /\ pc # "idle" => (conn = "open" /\ closes = 0)
    /\ (pc = "idle" /\ outcome # "none") =>
           /\ conn = "closed"
           /\ closes = 1
           /\ outcome \in {"returned", "raised"}
           /\ outcome = "returned" =>
                  /\ error = ""
                  /\ rollbacks = 0
                  /\ \E r \in db.extraction_runs : r.run_id = run_id
           /\ outcome = "raised" => (error # "" /\ rollbacks = 1)

\* One invocation has returned a run_id and a later one has raised.
C5_Witness ==
    /\ pc = "idle"
    /\ previous.outcome = "returned"
    /\ outcome = "raised"

\* the stored value s (thousandths) is the input c (ten-thousandths) brought
\* into [0, 1] and rounded to three decimals
StoredConfidenceOf(c, s) ==
    /\ c < 0 => s = 0
    /\ c > 10000 => s = 1000
    /\ (0 <= c /\ c <= 10000) => (10 * s - c \in -5..5)

\* the row (of observations or of links) comes from an entry of a result
FromAnEntry(store, row) ==
    \E p \in DOMAIN Results :
        /\ ParseInt(Results[p].item_id) = row.item_id
        /\ \E m \in 1..Len(Results[p].ingredients) :
               LET ing == Results[p].ingredients[m]
               IN /\ ing.confidence_kind = "number"
                  /\ \E g \in store.ingredients :
                         /\ g.ingredient_id = row.ingredient_id
                         /\ g.canonical_name
                                = canonicalize_ingredient(EntryName(ing))
                  /\ StoredConfidenceOf(ing.confidence, row.confidence)

\* C6: every confidence in menu_item_ingredient_observations and in
\* menu_item_ingredients, committed or written in the open transaction, lies
\* in [0, 1] and is the confidence of an entry for that item and ingredient,
\* brought into [0, 1] and rounded to three decimals.
C6_ConfidenceClampedAndRounded ==
    \A store \in {db, txn} :
        /\ \A o \in store.menu_item_ingredient_observations :
               o.confidence \in 0..1000 /\ FromAnEntry(store, o)
        /\ \A l \in store.menu_item_ingredients :
               l.confidence \in 0..1000 /\ FromAnEntry(store, l)

\* Committed rows hold an input below 0 (stored 0), an input above 1 (stored 1)
\* and the tie 0.0625 (stored 0.062).
C6_Witness ==
    /\ \E l \in db.menu_item_ingredients : l.confidence = 0
    /\ \E l \in db.menu_item_ingredients : l.confidence = 1000
    /\ \E o \in db.menu_item_ingredient_observations : o.confidence = 62

\* C7: an entry whose name has the empty canonical key is passed over: the
\* step that handles it writes nothing, raises nothing and goes on to the next
\* entry; and no ingredients row has an empty canonical_name.
C7_EmptyKeyEntryIsSkipped ==
    /\ [](\A store \in {db, txn} :
              \A g \in store.ingredients : g.canonical_name # <<>>)
    /\ [][(/\ pc = "ingredient"
           /\ k <= Len(ingredient_rows)
           /\ canonicalize_ingredient(EntryName(ingredient_rows[k])) = <<>>)
              => (/\ pc' = "ingredient"
                  /\ k' = k + 1
                  /\ txn' = txn
                  /\ error' = "")]_vars

UniqueCanonicalName(rows) ==
    \A r1, r2 \in rows : r1.canonical_name = r2.canonical_name => r1 = r2

SameIngredient(r1, r2) ==
    /\ r1.ingredient_id = r2.ingredient_id
    /\ r1.canonical_name = r2.canonical_name

C10_MenuItemLastWriterWins ==
    /\ \A r1, r2 \in db.menu_items : r1.item_id = r2.item_id => r1 = r2
    /\ { r.item_id : r \in db.menu_items } = { w.item_id : w \in last_write }
    /\ \A w \in last_write :
           \E r \in db.menu_items :
               /\ r.item_id = w.item_id
               /\ r.restaurant_id = ParseInt(Results[w.result].restaurant_id)
               /\ r.item_name = ItemName(Results[w.result])
               /\ r.reasoning = Results[w.result].reasoning

\* Item 1 was committed by the run of result 1 and again, with another
\* restaurant and no name, by the run of result 2.
C10_Witness ==
    /\ pc = "idle"
    /\ previous.results = <<1>> /\ previous.outcome = "returned"
    /\ results = <<2>> /\ outcome = "returned"
    /\ \E r \in db.menu_items :
           r.item_id = 1 /\ r.restaurant_id = 11 /\ r.item_name = ""

\* C8: two raw names that differ only in letter case, in whitespace around
\* them or in the length of a whitespace run, or in punctuation characters at
\* the end, have the same canonical key.
C8_VariantsShareTheKey ==
    text.keys # <<>> => text.keys[1] = text.keys[2]

\* C11: a committed restaurants row keeps its restaurant_id and name for ever;
\* the restaurant upsert of write_run leaves every other row as it is, keeps
\* the name of the row it finds, and adds a row, with NULL name, only when no
\* row has the restaurant_id.
C11_RestaurantNameIsKept ==
    [][/\ \A r \in db.restaurants :
              \E r2 \in db'.restaurants :
                  r2.restaurant_id = r.restaurant_id /\ r2.name = r.name
       /\ (pc = "item" /\ pc' = "ingredient") =>
              LET id == ParseInt(Results[results[i]].restaurant_id)
                  RowsOf(rows) == { r \in rows : r.restaurant_id = id }
              IN /\ \A r \in txn.restaurants \ RowsOf(txn.restaurants) :
                         r \in txn'.restaurants
                 /\ \A r \in RowsOf(txn.restaurants) :
                         \E r2 \in txn'.restaurants :
                             /\ r2.restaurant_id = id
                             /\ r2.name = r.name
                 /\ Cardinality(RowsOf(txn'.restaurants)) = 1
                 /\ \A r2 \in txn'.restaurants \ txn.restaurants :
                         /\ r2.restaurant_id = id
                         /\ RowsOf(txn.restaurants) = {} => r2.name = PyNone]_vars

\* Two committed runs have referenced restaurant 11, which had its name before
\* the first, and a run has added restaurant 10.
C11_Witness ==
    /\ \E r \in db.restaurants :
           r.restaurant_id = 11 /\ r.name = "Luigi" /\ r.updated_at = 2
    /\ \E r \in db.restaurants : r.restaurant_id = 10 /\ r.name = PyNone

\* C12: once write_run or commit has raised, the exception in flight stays the
\* same up to the return to the caller, through rollback and close: the caller
\* receives the error that caused the abort.
C12_OriginalErrorIsRaised ==
    [][(error # "" /\ pc \in {"rollback", "close"}) => error' = error]_vars

\* the entries of result p whose name has the canonical key
EntriesOfKey(p, key) ==
    { m \in 1..Len(Results[p].ingredients) :
        /\ Persistable(Results[p].ingredients[m])
        /\ canonicalize_ingredient(EntryName(Results[p].ingredients[m])) = key }

\* result p lists two entries of one canonical key with different confidences
HasDuplicateKey(p) ==
    \E m1, m2 \in 1..Len(Results[p].ingredients) :
        /\ m1 < m2
        /\ Persistable(Results[p].ingredients[m1])
        /\ m2 \in EntriesOfKey(p, canonicalize_ingredient(
                                      EntryName(Results[p].ingredients[m1])))
        /\ FloatOf(Results[p].ingredients[m1])
               # FloatOf(Results[p].ingredients[m2])

LastEntryOfKey(p, key) ==
    CHOOSE m \in EntriesOfKey(p, key) : \A n \in EntriesOfKey(p, key) : n <= m

\* C14: when run_with_transaction was called with one result that lists two
\* entries of one canonical key with different confidences (numeric ids and
\* confidences, no store failure), the run is committed, and for that
\* ingredient the observations of the run and menu_item_ingredients hold one
\* row each for the item, with the confidence of the last such entry.
C14_DuplicateIngredientLastWins ==
    (/\ pc = "idle"
     /\ Len(results) = 1
     /\ Accepted(results)
     /\ HasDuplicateKey(results[1])
     /\ error \notin StoreErrors)
        => /\ outcome = "returned"
           /\ \A g \in db.ingredients :
                  EntriesOfKey(results[1], g.canonical_name) # {} =>
                      LET item == ParseInt(Results[results[1]].item_id)
                          last == Results[results[1]].ingredients[
                                      LastEntryOfKey(results[1], g.canonical_name)]
                          conf == Round3(Clamp(FloatOf(last)))
                      IN /\ { o \in db.menu_item_ingredient_observations :
                                /\ o.run_id = run_id
                                /\ o.item_id = item
                                /\ o.ingredient_id = g.ingredient_id }
                              = {[run_id |-> run_id, item_id |-> item,
                                  ingredient_id |-> g.ingredient_id,
                                  confidence |-> conf]}
                         /\ { l \in db.menu_item_ingredients :
                                /\ l.item_id = item
                                /\ l.ingredient_id = g.ingredient_id }
                              = {[item_id |-> item,
                                  ingredient_id |-> g.ingredient_id,
                                  confidence |-> conf]}

RunIds(store) == { r.run_id : r \in store.extraction_runs }

\* C15: nothing is written in the transaction before the extraction_runs
\* insert; that insert adds one row, whose id becomes run_id and is the id of
\* no run before it, committed or rolled back; every observation row a
\* statement of write_run adds or changes carries run_id; and a commit
\* publishes the row of run_id, which is the value returned.
C15_RunRowFirstAndRunIdFresh ==
    /\ [](pc = "insert_run" => txn = db)
    /\ [][/\ (pc = "insert_run" /\ pc' = "item") =>
                 /\ \E r \in txn'.extraction_runs :
                        /\ r.run_id = run_id'
                        /\ txn' = [txn EXCEPT !.extraction_runs = @ \cup {r}]
                 /\ run_id' \notin RunIds(txn)
                 /\ run_id' # previous.run_id
                 /\ run_id' >= next_run_id
                 /\ next_run_id' > run_id'
          /\ pc \in {"item", "ingredient"} =>
                 /\ run_id' = run_id \/ pc' = "rollback"
                 /\ txn'.extraction_runs = txn.extraction_runs
                 /\ \A o \in txn'.menu_item_ingredient_observations
                              \ txn.menu_item_ingredient_observations :
                        o.run_id = run_id
          /\ (pc = "commit" /\ pc' = "close") =>
                 /\ run_id' = run_id
                 /\ RunIds(db') = RunIds(db) \cup {run_id}
                 /\ run_id \notin RunIds(db)
                 /\ \A o \in db'.menu_item_ingredient_observations
                              \ db.menu_item_ingredient_observations :
                        o.run_id = run_id]_vars

\* A run was rolled back after its extraction_runs insert, and the next run is
\* committed with observation rows.
C15_Witness ==
    /\ pc = "idle"
    /\ previous.outcome = "raised" /\ previous.run_id = 1
    /\ outcome = "returned" /\ run_id = 2
    /\ RunIds(db) = {2}
    /\ \E o \in db.menu_item_ingredient_observations : o.run_id = 2

\* the ingredients list of result p is empty or every entry of it is skipped
NothingPersistable(p) ==
    \A m \in 1..Len(Results[p].ingredients) :
        ~Persistable(Results[p].ingredients[m])

\* C16: when a committed run has returned, every item of its batch that has a
\* result without a persistable ingredient has no row in
\* menu_item_ingredients and no observation row of that run.
C16_NothingPersistableClearsTheItem ==
    (pc = "idle" /\ outcome = "returned") =>
        \A n \in 1..Len(results) :
            NothingPersistable(results[n]) =>
                /\ LinkedIngredients(db, ItemId(results, n)) = {}
                /\ ObservedIngredients(db, run_id, ItemId(results, n)) = {}

\* the rows of an item that is not in the batch are the same in both tables
SameLinksOutside(batch, before, after) ==
    \A l \in before \cup after :
        l.item_id \notin ItemsOf(batch) => l \in before \cap after

\* C18: no step of an invocation, neither a statement of write_run inside the
\* transaction nor the commit or the rollback, adds, removes or changes a
\* menu_item_ingredients row of an item that is not in the batch.
C18_LinksOfOtherItemsUntouched ==
    [][/\ SameLinksOutside(results', db.menu_item_ingredients,
                            db'.menu_item_ingredients)
       /\ SameLinksOutside(results', txn.menu_item_ingredients,
                            txn'.menu_item_ingredients)]_vars

\* The run of result 1 (item 1) is committed and then the run of result 3
\* (item 2): the two rows of item 1 are still there, next to those of item 2.
C18_Witness ==
    /\ pc = "idle"
    /\ previous.results = <<1>> /\ previous.outcome = "returned"
    /\ results = <<3>> /\ outcome = "returned"
    /\ Cardinality(LinkedIngredients(db, 1)) = 2
    /\ Cardinality(LinkedIngredients(db, 2)) = 2

\* every reference of a row of the store leads to a row of the store
ReferencesResolve(store) ==
    /\ \A o \in store.menu_item_ingredient_observations :
           /\ \E r \in store.extraction_runs : r.run_id = o.run_id
           /\ \E m \in store.menu_items : m.item_id = o.item_id
           /\ \E g \in store.ingredients : g.ingredient_id = o.ingredient_id
    /\ \A l \in store.menu_item_ingredients :
           /\ \E m \in store.menu_items : m.item_id = l.item_id
           /\ \E g \in store.ingredients : g.ingredient_id = l.ingredient_id
    /\ \A m \in store.menu_items :
           \E r \in store.restaurants : r.restaurant_id = m.restaurant_id

\* C19: in every committed state of the store, every observation row names an
\* extraction_runs, a menu_items and an ingredients row that exist, every
\* menu_item_ingredients row names a menu_items and an ingredients row that
\* exist, and every menu_items row names a restaurants row that exists.
C19_ReferentialIntegrity == ReferencesResolve(db)

\* After a rolled-back run, a committed run has left rows in all six tables,
\* among them a menu item of restaurant 10, which no row named at the start.
C19_Witness ==
    /\ pc = "idle"
    /\ previous.outcome = "raised" /\ previous.run_id # 0
    /\ outcome = "returned"
    /\ db.menu_item_ingredient_observations # {}
    /\ db.menu_item_ingredients # {}
    /\ \E m \in db.menu_items : m.restaurant_id = 10

\* a key without whitespace at either end, without two whitespace characters
\* in a row and without a punctuation character at the end
IsNormalForm(key) ==
    /\ ~IsSpace(key[1])
    /\ ~IsSpace(key[Len(key)])
    /\ \A p \in 1..(Len(key) - 1) : ~(IsSpace(key[p]) /\ IsSpace(key[p + 1]))
    /\ key[Len(key)] \notin Punctuation

\* C20: the canonical key of a canonical key is that key, and a canonical key
\* that is not empty has no whitespace at either end, no two whitespace
\* characters in a row and no punctuation character at the end.
C20_CanonicalizeIsIdempotent ==
    text.keys # <<>> =>
        /\ text.keys[3] = text.keys[1]
        /\ text.keys[1] # <<>> => IsNormalForm(text.keys[1])

\* C17: the extraction_runs row of the invocation in work holds the
\* prompt_version and the pipeline_version given as arguments, NULL for an
\* argument that was not given, whatever config.py holds.
C17_VersionsComeFromTheArguments ==
    \A r \in txn.extraction_runs :
        (pc # "idle" /\ r.run_id = run_id) =>
            /\ r.prompt_version = prompt_version
            /\ r.pipeline_version = pipeline_version

\* calls of extract_ingredients a batch of n items needs
Chunks(n, size) == (n + size - 1) \div size

\* C13: main returns non-zero when the source file is missing and when the
\* load, an extraction call or run_with_transaction has raised; it returns
\* zero only when the batch was empty, with no transaction opened, or when the
\* run it wrote is committed; and an invocation loads at most once, calls
\* extract_ingredients at most once per chunk and opens at most one
\* transaction.
C13_MainReportsFailureAndNeverRetries ==
    /\ main.stage = "done" =>
           /\ main.status \in {0, 1}
           /\ main.failed # "" => main.status # 0
           /\ (calls > main.calls_before /\ outcome = "raised") =>
                  main.status # 0
           /\ main.status = 0 =>
                  \/ /\ main.loads = 1
                     /\ main.batch = 0
                     /\ calls = main.calls_before
                  \/ /\ calls = main.calls_before + 1
                     /\ outcome = "returned"
                     /\ run_id \in RunIds(db)
                     /\ results = main.results
    /\ main.stage # "none" =>
           /\ calls <= main.calls_before + 1
           /\ main.loads <= 1
           /\ main.extractions <= Chunks(main.batch, main.chunk_size)

\* A first invocation of main has committed a run; the second one, with two
\* chunks, has returned 1 after the extraction of its second chunk raised, and
\* has opened no transaction.
C13_Witness ==
    /\ main.stage = "done"
    /\ main.invocations = 2
    /\ main.status = 1
    /\ main.failed = "extract"
    /\ main.extractions = 2
    /\ calls = main.calls_before
    /\ RunIds(db) # {}

\* main has called run_with_transaction in the invocation in work
WriteBegun == main.stage # "none" /\ calls > main.calls_before

\* C21: when main has called run_with_transaction, extract_ingredients has
\* been called for every chunk of the batch and none of the calls has raised,
\* and the batch handed over is the results of the chunks in the order of the
\* chunks; up to that call no step of main changes the store or takes a
\* run_id, so a failed extraction leaves no extraction_runs row and no other
\* write; each extraction appends its results behind those of the chunks
\* before it; write_run takes the results in that order; and the commit adds
\* one extraction_runs row, that of run_id.
C21_ExtractionCompleteBeforeTheWrite ==
    /\ [](/\ WriteBegun =>
              /\ main.start >= main.batch
              /\ main.extractions = Chunks(main.batch, main.chunk_size)
              /\ main.failed \in {"", "write"}
              /\ results = main.results
              /\ calls = main.calls_before + 1
          /\ (main.stage # "none" /\ ~WriteBegun) =>
              (pc = "idle" /\ conn # "open")
          /\ main.failed = "extract" => ~WriteBegun)
    /\ [][/\ (main.stage # "none" /\ ~WriteBegun /\ ~WriteBegun') =>
              /\ db' = db
              /\ txn' = txn
              /\ next_run_id' = next_run_id
          /\ (main.stage = "extract" /\ main'.extractions > main.extractions) =>
              \/ main'.failed = "extract"
              \/ /\ Len(main'.results) >= Len(main.results)
                 /\ SubSeq(main'.results, 1, Len(main.results)) = main.results
          /\ (WriteBegun /\ pc = "item" /\ pc' = "ingredient") =>
              /\ i' = i
              /\ item_id' = ItemId(main.results, i)
          /\ (WriteBegun /\ pc = "ingredient" /\ pc' = "item") =>
              i' = i + 1
          /\ (WriteBegun /\ pc = "commit" /\ pc' = "close") =>
              /\ RunIds(db') = RunIds(db) \cup {run_id}
              /\ run_id \notin RunIds(db)]_vars

\* main has loaded two items, extracted them in two chunks with different
\* results, and returned 0: the committed run holds the menu items of both
\* results, handed over in the order of the chunks.
C21_Witness ==
    /\ main.stage = "done"
    /\ main.status = 0
    /\ main.chunk_size = 1
    /\ main.extractions = 2
    /\ main.results = <<3, 1>>
    /\ results = <<3, 1>>
    /\ outcome = "returned"
    /\ Cardinality(db.menu_items) = 2
    /\ Cardinality(RunIds(db)) = 1

====
